---- MODULE Spec2Model ----
(***************************************************************************)
(* Model of YT_Down.py: the command-line entry point main, the             *)
(* YouTubeDownloader operations it dispatches to, the format probing of    *)
(* test_format_availability, the classification of get_manual_formats and  *)
(* the interactive menu of select_quality.  The extraction library and the *)
(* console are the environment: every library call either returns one of  *)
(* a small set of responses or raises, every input() returns one of a      *)
(* small set of typed texts, is interrupted or hits end of input.          *)
(*                                                                         *)
(* Texts that the program inspects character by character (the URL, the    *)
(* answers typed at prompts) are sequences of one-character strings.       *)
(* Texts it only passes on (format selectors, format ids) are strings.     *)
(* The directory given with --path is taken to be creatable.               *)
(***************************************************************************)
EXTENDS Integers, Sequences, FiniteSets, TLC

\* ------------------------------------------------------------------ bounds
\* Probes of one run that may raise.
MaxProbeFailures == 1
\* Times the quality prompt is shown in one run.
MaxPrompts == 2
\* Largest number the user types at the quality prompt.
MaxTyped == 12

\* ------------------------------------------------------- program constants
\* manual_formats[...][:5]
MenuSectionLimit == 5

\* Python's None where the other values are strings.
None == "None"
\* Python's None where the other values are texts (character sequences).
NoText == <<"None">>
\* A missing 'abr' (f.get('abr') is None).
NoAbr == -1

\* ------------------------------------------------------------ text helpers
Min(a, b) == IF a < b THEN a ELSE b

DigitChars == <<"0", "1", "2", "3", "4", "5", "6", "7", "8", "9">>

IsDigit(c) == \E d \in 1..10 : DigitChars[d] = c

DigitVal(c) == (CHOOSE d \in 1..10 : DigitChars[d] = c) - 1

IsSpace(c) == c = " "

\* needle in hay
Contains(hay, needle) ==
    \E i \in 0..(Len(hay) - Len(needle)) :
        SubSeq(hay, i + 1, i + Len(needle)) = needle

RECURSIVE LStrip(_)
LStrip(s) == IF s # <<>> /\ IsSpace(Head(s)) THEN LStrip(Tail(s)) ELSE s

RECURSIVE RStrip(_)
RStrip(s) ==
    IF s # <<>> /\ IsSpace(s[Len(s)]) THEN RStrip(SubSeq(s, 1, Len(s) - 1)) ELSE s

\* str.strip()
Strip(s) == RStrip(LStrip(s))

LowerChar(c) ==
    CASE c = "Q" -> "q"
      [] c = "Y" -> "y"
      [] c = "E" -> "e"
      [] c = "S" -> "s"
      [] c = "I" -> "i"
      [] c = "N" -> "n"
      [] OTHER -> c

\* str.lower()
Lower(s) == [k \in DOMAIN s |-> LowerChar(s[k])]

\* Decimal digits of n >= 0.
RECURSIVE Str(_)
Str(n) ==
    IF n < 10 THEN <<DigitChars[n + 1]>>
    ELSE Str(n \div 10) \o <<DigitChars[(n % 10) + 1]>>

\* f"{option_num:2d}": right-aligned in a field of width 2.
Fmt2d(n) == IF n < 10 THEN <<" ">> \o Str(n) ELSE Str(n)

RECURSIVE DigitsValue(_)
DigitsValue(ds) ==
    IF ds = <<>> THEN 0
    ELSE 10 * DigitsValue(SubSeq(ds, 1, Len(ds) - 1)) + DigitVal(ds[Len(ds)])

\* int(text): surrounding whitespace ignored, an optional sign, then digits
\* with single underscores allowed between them; anything else raises
\* ValueError (ok = FALSE).
PyInt(text) ==
    LET s    == Strip(text)
        neg  == s # <<>> /\ Head(s) = "-"
        body == IF s # <<>> /\ Head(s) \in {"+", "-"} THEN Tail(s) ELSE s
        wellFormed ==
            /\ body # <<>>
            /\ \A k \in DOMAIN body : IsDigit(body[k]) \/ body[k] = "_"
            /\ IsDigit(body[1]) /\ IsDigit(body[Len(body)])
            /\ \A k \in 1..(Len(body) - 1) : ~(body[k] = "_" /\ body[k + 1] = "_")
        v    == DigitsValue(SelectSeq(body, IsDigit))
    IN  IF wellFormed
        THEN [ok |-> TRUE, val |-> IF neg THEN 0 - v ELSE v]
        ELSE [ok |-> FALSE, val |-> 0]

\* ------------------------------------------------------------------- URLs
Https == <<"h", "t", "t", "p", "s", ":", "/", "/">>
Www == <<"w", "w", "w", ".">>
\* 'youtube.com'
YoutubeCom == <<"y", "o", "u", "t", "u", "b", "e", ".", "c", "o", "m">>
\* 'youtu.be'
YoutuBe == <<"y", "o", "u", "t", "u", ".", "b", "e">>
\* 'playlist'
PlaylistWord == <<"p", "l", "a", "y", "l", "i", "s", "t">>
OtherHost == <<"e", "v", "i", "l", ".", "c", "o", "m">>
WatchPath == <<"/", "w", "a", "t", "c", "h", "?", "v", "=", "x">>

UrlShort == Https \o YoutuBe \o <<"/", "x">>
UrlPlaylist == Https \o Www \o YoutubeCom \o <<"/">> \o PlaylistWord \o <<"?", "l", "=", "x">>
\* A page of another site whose query string mentions youtube.com.
UrlOtherMention == Https \o OtherHost \o <<"/", "?", "r", "=">> \o YoutubeCom
\* A page of another site.
UrlOther == Https \o OtherHost \o WatchPath
UrlEmpty == <<>>

\* The URL argument of the command line (NoText: not given).
ArgUrls == {NoText, UrlShort, UrlPlaylist, UrlOtherMention, UrlOther, UrlEmpty}

\* Texts typed at the URL prompt.
TypedUrls == {<<" ">> \o UrlShort \o <<" ">>, <<" ">>, UrlOther}

\* The -q/--quality argument (None: not given).
Qualities == {None, "", "18"}

\* -------------------------------------------------- the library's answers
\* One stream of info['requested_formats'] (height 0: no height known).
Stream(vc, ac, h) == [vcodec |-> vc, acodec |-> ac, height |-> h]

\* extract_info's answer for a selector that resolves to separate streams.
Separate(h) ==
    [has_requested |-> TRUE,
     requested_formats |-> <<Stream("avc1", "none", h), Stream("none", "mp4a", 0)>>,
     height |-> h, vcodec |-> "avc1", acodec |-> "mp4a"]

\* ... to two audio streams (no video stream among those requested).
SeparateAudio ==
    [has_requested |-> TRUE,
     requested_formats |-> <<Stream("none", "opus", 0), Stream("none", "mp4a", 0)>>,
     height |-> 0, vcodec |-> "none", acodec |-> "mp4a"]

\* ... to a single format.
Direct(h, ac) ==
    [has_requested |-> FALSE, requested_formats |-> <<>>,
     height |-> h, vcodec |-> "avc1", acodec |-> ac]

\* What the library answers to each of the nine probes, per kind of video.
VideoHD ==
    <<Direct(720, "mp4a"), Separate(1080), Direct(360, "mp4a"), Separate(1080),
      Separate(1080), Separate(1080), Separate(720), Separate(360), Separate(360)>>

VideoUnknownHeights ==
    <<Direct(0, "mp4a"), Separate(0), Direct(360, "none"), Separate(0),
      Separate(0), Separate(0), Separate(720), Separate(0), Separate(360)>>

VideoProgressive ==
    <<Direct(360, "mp4a"), Direct(360, "mp4a"), Direct(360, "mp4a"),
      Direct(360, "mp4a"), Direct(360, "mp4a"), Direct(360, "mp4a"),
      Direct(360, "mp4a"), Direct(360, "mp4a"), Direct(360, "mp4a")>>

AudioOnlyMedia ==
    <<Direct(0, "mp4a"), SeparateAudio, Direct(0, "mp4a"), SeparateAudio,
      SeparateAudio, SeparateAudio, SeparateAudio, SeparateAudio, SeparateAudio>>

\* One element of info['formats'].
Format(id, h, vc, ac, abr) ==
    [format_id |-> id, height |-> h, vcodec |-> vc, acodec |-> ac, abr |-> abr]

F18 == Format("18", 360, "avc1", "mp4a", 96)
F22 == Format("22", 720, "avc1", "mp4a", 192)
F137 == Format("137", 1080, "avc1", "none", NoAbr)
F136 == Format("136", 720, "avc1", "none", NoAbr)
F135 == Format("135", 480, "avc1", "none", NoAbr)
F134 == Format("134", 360, "avc1", "none", NoAbr)
F133 == Format("133", 240, "avc1", "none", NoAbr)
F160 == Format("160", 144, "avc1", "none", NoAbr)
F140 == Format("140", 0, "none", "mp4a", 128)
F249 == Format("249", 0, "none", "opus", 50)
F251 == Format("251", 0, "none", "opus", NoAbr)
\* Both codecs, no height.
F93 == Format("93", 0, "avc1", "mp4a", 64)
\* A storyboard: neither codec.
FSb == Format("sb0", 27, "none", "none", NoAbr)

\* What the library knows of the media at a URL: its answers to the nine
\* probes and info['formats'].
Media ==
    {[probes |-> VideoHD, formats |-> <<FSb, F249, F136, F18, F93, F140>>],
     [probes |-> VideoUnknownHeights, formats |-> <<F160, F134, F137, F133, F136, F135>>],
     [probes |-> VideoProgressive, formats |-> <<F22, F18, F251>>],
     [probes |-> VideoProgressive, formats |-> <<F18, F251, F140>>],
     [probes |-> AudioOnlyMedia, formats |-> <<>>]}

\* ------------------------------------------------ test_format_availability
\* The selectors probed, in order.
test_formats ==
    <<"best",
      "bestvideo+bestaudio/best",
      "worst",
      "bestvideo[height<=2160]+bestaudio/best",
      "bestvideo[height<=1440]+bestaudio/best",
      "bestvideo[height<=1080]+bestaudio/best",
      "bestvideo[height<=720]+bestaudio/best",
      "bestvideo[height<=480]+bestaudio/best",
      "bestvideo[height<=360]+bestaudio/best">>

\* The last stream with a video codec among those requested (<<>>: none).
RECURSIVE VideoFormatOf(_)
VideoFormatOf(streams) ==
    IF streams = <<>> THEN <<>>
    ELSE LET last == streams[Len(streams)]
         IN  IF last.vcodec # "none" THEN <<last>>
             ELSE VideoFormatOf(SubSeq(streams, 1, Len(streams) - 1))

\* The entries one successful probe appends to available_formats: none or one.
ProbeEntries(format_selector, test_info) ==
    IF test_info.has_requested
    THEN LET video_format == VideoFormatOf(test_info.requested_formats)
         IN  IF video_format # <<>>
             THEN <<[selector |-> format_selector,
                     height |-> video_format[1].height,
                     type |-> "combined_separate"]>>
             ELSE <<>>
    ELSE IF test_info.height # 0
         THEN <<[selector |-> format_selector,
                 height |-> test_info.height,
                 type |-> IF test_info.acodec # "none"
                          THEN "combined_direct" ELSE "video_only"]>>
         ELSE <<>>

\* -------------------------------------------------------- get_manual_formats
\* list.sort(key=..., reverse=True): descending, equal keys keep their order.
RECURSIVE InsertDesc(_, _, _)
InsertDesc(x, sorted, key) ==
    IF sorted = <<>> THEN <<x>>
    ELSE IF Head(sorted)[key] < x[key] THEN <<x>> \o sorted
         ELSE <<Head(sorted)>> \o InsertDesc(x, Tail(sorted), key)

\* `key` names the field sorted by.
RECURSIVE SortDesc(_, _)
SortDesc(list, key) ==
    IF list = <<>> THEN <<>>
    ELSE InsertDesc(list[Len(list)], SortDesc(SubSeq(list, 1, Len(list) - 1), key), key)

IsCombined(f) == f.vcodec # "none" /\ f.acodec # "none" /\ f.height # 0
IsVideoOnly(f) == ~IsCombined(f) /\ f.vcodec # "none" /\ f.height # 0
IsAudio(f) == ~IsCombined(f) /\ ~IsVideoOnly(f) /\ f.acodec # "none"

\* Comparing the keys of two or more audio formats raises TypeError when one
\* of them is None.
AudioSortRaises(audio) == Len(audio) >= 2 /\ \E k \in DOMAIN audio : audio[k].abr = NoAbr

NoManualFormats == [combined |-> <<>>, video |-> <<>>, audio |-> <<>>]

\* The result for the list `formats` of info['formats'].
ManualFormats(formats) ==
    LET combined == SelectSeq(formats, IsCombined)
        video    == SelectSeq(formats, IsVideoOnly)
        audio    == SelectSeq(formats, IsAudio)
    IN  IF AudioSortRaises(audio) THEN NoManualFormats
        ELSE [combined |-> SortDesc(combined, "height"),
              video    |-> SortDesc(video, "height"),
              audio    |-> SortDesc(audio, "abr")]

\* ------------------------------------------------------- select_quality menu
\* The first entry of each positive height, in the order probed.
RECURSIVE UniqueByHeight(_, _)
UniqueByHeight(available, seen_heights) ==
    IF available = <<>> THEN <<>>
    ELSE LET fmt == Head(available)
         IN  IF fmt.height > 0 /\ fmt.height \notin seen_heights
             THEN <<fmt>> \o UniqueByHeight(Tail(available), seen_heights \cup {fmt.height})
             ELSE UniqueByHeight(Tail(available), seen_heights)

\* unique_formats without the sort.
UniqueFormatsUnsorted(available) == UniqueByHeight(available, {})

\* unique_formats after the sort.
UniqueFormats(available) == SortDesc(UniqueByHeight(available, {}), "height")

\* list[:5]
Limit(list) == SubSeq(list, 1, Min(MenuSectionLimit, Len(list)))

\* The entry's number printed after option_num was incremented.
AddOptionNumberedLate(m, selector) ==
    [lines       |-> Append(m.lines, [label |-> Fmt2d(m.option_num + 1), selector |-> selector]),
     all_options |-> Append(m.all_options, selector),
     option_num  |-> m.option_num + 1]

\* One menu entry: the line is printed with option_num, the selector is
\* appended to all_options, option_num is incremented.
AddOption(m, selector) ==
    [lines       |-> Append(m.lines, [label |-> Fmt2d(m.option_num), selector |-> selector]),
     all_options |-> Append(m.all_options, selector),
     option_num  |-> m.option_num + 1]

RECURSIVE AddOptions(_, _)
AddOptions(m, selectors) ==
    IF selectors = <<>> THEN m
    ELSE AddOptions(AddOption(m, Head(selectors)), Tail(selectors))

SelectorsOf(list) == [k \in DOMAIN list |-> list[k].selector]
IdsOf(list) == [k \in DOMAIN list |-> list[k].format_id]
IdsPlusBestAudio(list) == [k \in DOMAIN list |-> list[k].format_id \o "+bestaudio"]

quick_options == <<"best", "bestvideo+bestaudio/best", "worst">>

Positive(fmt) == fmt.height > 0

\* The whole menu: detected qualities, combined, video only, audio only, quick.
BuildMenu(unique_formats, manual_formats) ==
    LET m0 == [lines |-> <<>>, all_options |-> <<>>, option_num |-> 1]
        m1 == AddOptions(m0, SelectorsOf(SelectSeq(unique_formats, Positive)))
        m2 == AddOptions(m1, IdsOf(Limit(manual_formats.combined)))
        m3 == AddOptions(m2, IdsPlusBestAudio(Limit(manual_formats.video)))
        m4 == AddOptions(m3, IdsOf(Limit(manual_formats.audio)))
    IN  AddOptions(m4, quick_options)

\* Python's list[i]: a negative index counts from the end; ok = FALSE is
\* IndexError.
PyIndex(list, i) ==
    LET k == IF i < 0 THEN Len(list) + i + 1 ELSE i + 1
    IN  IF k \in DOMAIN list THEN [ok |-> TRUE, val |-> list[k]]
        ELSE [ok |-> FALSE, val |-> None]

\* choice_num < len(all_options), the lower bound forgotten
ChoiceInRangeNoLowerBound(choice_num, all_options) == choice_num < Len(all_options)

\* 0 <= choice_num < len(all_options)
ChoiceInRange(choice_num, all_options) == 0 <= choice_num /\ choice_num < Len(all_options)

\* choice == 'q', without lower()
IsQuitCaseSensitive(choice) == choice = <<"q">>

\* choice.lower() == 'q'
IsQuit(choice) == Lower(choice) = <<"q">>

\* ---------------------------------------------------------------------- main
\* not args.url
UrlMissing(url) == url = NoText \/ url = <<>>

\* not ('youtube.com' not in url and 'youtu.be' not in url)
UrlAccepted(url) == Contains(url, YoutubeCom) \/ Contains(url, YoutuBe)

\* The playlist test made before the audio test.
ChooseOperationPlaylistFirst(a) ==
    IF a.playlist \/ Contains(a.url, PlaylistWord) THEN "download_playlist"
    ELSE IF a.audio THEN "download_audio_only"
    ELSE "download_video"

\* The operation main calls.
ChooseOperation(a) ==
    IF a.audio THEN "download_audio_only"
    ELSE IF a.playlist \/ Contains(a.url, PlaylistWord) THEN "download_playlist"
    ELSE "download_video"

\* "if not format_selector" where the code has "is None"
NeedsSelectionWhenFalsy(format_selector) == format_selector = None \/ format_selector = ""

\* "if format_selector is None: format_selector = self.select_quality(url)"
NeedsSelection(format_selector) == format_selector = None

\* "if format_selector is None: print(cancelled); return"
SelectionCancelled(format_selector) == format_selector = None

\* confirm.lower() not in ['n', 'no']
ConfirmsUnlessNo(confirm) == Lower(confirm) \notin {<<"n">>, <<"n", "o">>}

\* confirm.lower() in ['y', 'yes', 's', 'si']
Confirms(confirm) ==
    Lower(confirm) \in {<<"y">>, <<"y", "e", "s">>, <<"s">>, <<"s", "i">>}

\* What one answer to the quality prompt leads to: select_quality returns a
\* value, asks again after printing a message, or raises.
PromptStep(choice, all_options) ==
    IF IsQuit(choice)
    THEN [kind |-> "return", value |-> None, print |-> {}]
    ELSE LET n == PyInt(choice)
         IN  IF ~n.ok
             THEN [kind |-> "again", value |-> None, print |-> {"invalid_number"}]
             ELSE IF ChoiceInRange(n.val - 1, all_options)
                  THEN LET selected == PyIndex(all_options, n.val - 1)
                       IN  IF selected.ok
                           THEN [kind |-> "return", value |-> selected.val,
                                 print |-> {"selected"}]
                           ELSE [kind |-> "raise", value |-> None, print |-> {}]
                  ELSE [kind |-> "again", value |-> None, print |-> {"invalid_option"}]

\* "break" where the code has "continue": a probe that raises ends the loop.
NextProbeStopsOnFailure(i, failed) == IF failed THEN Len(test_formats) + 1 ELSE i + 1

\* The loop of probes goes on to the next selector whether or not the probe
\* raised.
NextProbe(i, failed) == i + 1

\* Texts typed at the quality prompt.
TypedChoices ==
    {Str(n) : n \in 0..MaxTyped} \cup
    {<<"-", "1">>, <<"q">>, <<"Q">>, <<" ", "q", " ">>, <<"x">>, <<>>,
     <<" ", "2", " ">>, <<"+", "1">>, <<"1", ".", "0">>, <<"1", "_", "0">>,
     <<"q", "1">>}

\* Texts typed at the playlist confirmation.
ConfirmAnswers ==
    {<<"y">>, <<"Y", "E", "S">>, <<"S", "i">>, <<"s">>, <<"n">>, <<>>,
     <<" ", "y">>, <<"y", "e">>, <<"N", "o">>}

\* ------------------------------------------------------------------- state
VARIABLES
    args,               \* the parsed command line: url, audio, playlist, quality
    pc,                 \* where the run is
    exit,               \* "running", "normal", "exit1" (sys.exit(1)), "traceback"
    out,                \* the messages printed so far
    choice,             \* what the quality prompt last read, stripped (NoText: nothing)
    confirm,            \* the answer read at the playlist confirmation
    dirCreated,         \* download_path.mkdir has run
    invoked,            \* the download operations main has called, in order
    calls,              \* the calls made to the library, in order
    raised,             \* where the library has raised
    format_selector,    \* the operation's format_selector
    opts_format,        \* opts['format']
    smart_formats,      \* select_quality: "unset", None or "ok"
    info,               \* what the library answers for the URL
    i,                  \* test_format_availability: the probe's index
    probeOK,            \* test_format_availability: which probes returned
    available_formats,  \* test_format_availability
    manual_formats,     \* select_quality
    unique_formats,     \* select_quality
    all_options,        \* select_quality
    lines,              \* select_quality: the numbered lines printed
    prompts             \* select_quality: times the prompt was shown

vars ==
    <<args, pc, exit, out, choice, confirm, dirCreated, invoked, calls, raised,
      format_selector, opts_format, smart_formats, info, i, probeOK,
      available_formats, manual_formats, unique_formats, all_options, lines,
      prompts>>

\* The variables of select_quality and of the functions it calls.
locals ==
    <<smart_formats, info, i, probeOK, available_formats, manual_formats,
      unique_formats, all_options, lines, prompts>>

console == <<out, choice, confirm>>

\* No answer of the library is held.
NoMedia == [probes |-> <<>>, formats |-> <<>>]

Call(fn, format) == [fn |-> fn, format |-> format]

Init ==
    /\ args \in [url : ArgUrls, audio : BOOLEAN, playlist : BOOLEAN, quality : Qualities]
    /\ pc = "main"
    /\ exit = "running"
    /\ out = {}
    /\ confirm = NoText
    /\ dirCreated = FALSE
    /\ invoked = <<>>
    /\ calls = <<>>
    /\ raised = {}
    /\ format_selector = None
    /\ opts_format = None
    /\ smart_formats = "unset"
    /\ info = NoMedia
    /\ i = 0
    /\ probeOK = <<>>
    /\ available_formats = <<>>
    /\ manual_formats = NoManualFormats
    /\ unique_formats = <<>>
    /\ all_options = <<>>
    /\ lines = <<>>
    /\ choice = NoText
    /\ prompts = 0

\* select_quality's frame is gone once it has returned or raised.
LocalsGone ==
    /\ smart_formats' = "unset"
    /\ info' = NoMedia
    /\ i' = 0
    /\ probeOK' = <<>>
    /\ available_formats' = <<>>
    /\ manual_formats' = NoManualFormats
    /\ unique_formats' = <<>>
    /\ all_options' = <<>>
    /\ lines' = <<>>
    /\ prompts' = 0

\* The name of the operation main called.
Op == invoked[Len(invoked)]

ErrorMessage(op) ==
    CASE op = "download_video" -> "error_video"
      [] op = "download_playlist" -> "error_playlist"
      [] OTHER -> "error_audio"

SuccessMessage(op) ==
    CASE op = "download_video" -> "success_video"
      [] op = "download_playlist" -> "success_playlist"
      [] OTHER -> "success_audio"

\* No "except Exception" around the operation: the exception leaves main.
Uncaught(printed) ==
    /\ out' = out \cup printed
    /\ pc' = "done"
    /\ exit' = "traceback"

\* The operation's "except Exception": the message is printed, the operation
\* returns, main ends.
Caught(printed) ==
    /\ out' = out \cup printed \cup {ErrorMessage(Op)}
    /\ pc' = "done"
    /\ exit' = "normal"

\* main's "except KeyboardInterrupt".
Interrupted(printed) ==
    /\ out' = out \cup printed \cup {"interrupted"}
    /\ pc' = "done"
    /\ exit' = "normal"

\* The operation returns, main ends.
Returned(printed) ==
    /\ out' = out \cup printed
    /\ pc' = "done"
    /\ exit' = "normal"

\* ----------------------------------------------------------------- actions
\* main: the banner, and the URL prompt when no URL was given.
ReadUrl ==
    /\ pc = "main"
    /\ IF UrlMissing(args.url)
       THEN \/ \E typed \in TypedUrls :
                  /\ args' = [args EXCEPT !.url = Strip(typed)]
                  /\ pc' = "validate"
                  /\ exit' = exit
            \/ \* interrupted or at end of input, outside main's try
               /\ pc' = "done"
               /\ exit' = "traceback"
               /\ args' = args
       ELSE /\ pc' = "validate"
            /\ UNCHANGED <<args, exit>>
    /\ out' = out \cup {"banner"}
    /\ UNCHANGED <<choice, confirm, dirCreated, invoked, calls, raised,
                   format_selector, opts_format, locals>>

\* main: "URL requerida", "URL no valida", or on to the downloader.
ValidateUrl ==
    /\ pc = "validate"
    /\ IF UrlMissing(args.url)
       THEN /\ out' = out \cup {"url_required"}
            /\ pc' = "done"
            /\ exit' = "exit1"
       ELSE IF ~UrlAccepted(args.url)
            THEN /\ out' = out \cup {"url_invalid"}
                 /\ pc' = "done"
                 /\ exit' = "exit1"
            ELSE /\ pc' = "construct"
                 /\ UNCHANGED <<out, exit>>
    /\ UNCHANGED <<args, choice, confirm, dirCreated, invoked, calls, raised,
                   format_selector, opts_format, locals>>

\* YouTubeDownloader(args.path)
Construct ==
    /\ pc = "construct"
    /\ dirCreated' = TRUE
    /\ pc' = "dispatch"
    /\ UNCHANGED <<args, exit, console, invoked, calls, raised, format_selector,
                   opts_format, locals>>

\* main calls one operation.
Dispatch ==
    /\ pc = "dispatch"
    /\ LET op == ChooseOperation(args)
       IN  /\ invoked' = Append(invoked, op)
           /\ IF op = "download_audio_only"
              THEN /\ pc' = "audio"
                   /\ format_selector' = format_selector
              ELSE /\ pc' = "entry"
                   /\ format_selector' = args.quality
    /\ UNCHANGED <<args, exit, console, dirCreated, calls, raised, opts_format, locals>>

\* download_video, download_playlist: select_quality is called when no
\* selector was passed.
EnterOperation ==
    /\ pc = "entry"
    /\ pc' = IF NeedsSelection(format_selector) THEN "tfa" ELSE "selected"
    /\ UNCHANGED <<args, exit, console, dirCreated, invoked, calls, raised,
                   format_selector, opts_format, locals>>

\* test_format_availability: the first metadata query.
QueryInfo ==
    /\ pc = "tfa"
    /\ calls' = Append(calls, Call("extract_info", None))
    /\ \/ \E media \in Media :
              /\ info' = media
              /\ i' = 1
              /\ pc' = "probe"
              /\ UNCHANGED <<out, raised, smart_formats>>
       \/ /\ raised' = raised \cup {"info"}
          /\ out' = out \cup {"detect_error"}
          /\ smart_formats' = None
          /\ pc' = "manual"
          /\ UNCHANGED <<info, i>>
    /\ UNCHANGED <<args, exit, choice, confirm, dirCreated, invoked,
                   format_selector, opts_format, probeOK, available_formats,
                   manual_formats, unique_formats, all_options, lines, prompts>>

\* test_format_availability: one probe.
Probe ==
    /\ pc = "probe"
    /\ calls' = Append(calls, Call("extract_info", test_formats[i]))
    /\ \E failed \in BOOLEAN :
          /\ failed => Cardinality({k \in DOMAIN probeOK : ~probeOK[k]}) < MaxProbeFailures
          /\ probeOK' = Append(probeOK, ~failed)
          /\ raised' = IF failed THEN raised \cup {"probe"} ELSE raised
          /\ available_formats' =
                 IF failed THEN available_formats
                 ELSE available_formats \o ProbeEntries(test_formats[i], info.probes[i])
          /\ IF NextProbe(i, failed) > Len(test_formats)
             THEN /\ smart_formats' = "ok"
                  /\ pc' = "manual"
                  /\ i' = i
             ELSE /\ i' = NextProbe(i, failed)
                  /\ UNCHANGED <<smart_formats, pc>>
    /\ UNCHANGED <<args, exit, console, dirCreated, invoked, format_selector,
                   opts_format, info, manual_formats, unique_formats, all_options,
                   lines, prompts>>

\* get_manual_formats, and select_quality's return when
\* test_format_availability gave nothing.
QueryFormats ==
    /\ pc = "manual"
    /\ calls' = Append(calls, Call("extract_info", None))
    /\ \E failed \in BOOLEAN :
          /\ raised' = IF failed THEN raised \cup {"formats"} ELSE raised
          /\ IF smart_formats = None
             THEN /\ out' = out \cup {"no_info"}
                  /\ format_selector' = "bestvideo+bestaudio/best"
                  /\ pc' = "selected"
                  /\ LocalsGone
             ELSE /\ manual_formats' =
                         IF failed THEN NoManualFormats ELSE ManualFormats(info.formats)
                  /\ pc' = "menu"
                  /\ UNCHANGED <<out, format_selector, smart_formats, info, i, probeOK,
                                 available_formats, unique_formats, all_options, lines,
                                 prompts>>
    /\ UNCHANGED <<args, exit, choice, confirm, dirCreated, invoked, opts_format>>

\* select_quality prints the menu.  The probe results are not read again
\* once unique_formats is built; test_format_availability's frame is gone.
ShowMenu ==
    /\ pc = "menu"
    /\ unique_formats' = UniqueFormats(available_formats)
    /\ LET m == BuildMenu(unique_formats', manual_formats)
       IN  /\ lines' = m.lines
           /\ all_options' = m.all_options
    /\ out' = out \cup {"menu"}
    /\ pc' = "prompt"
    /\ info' = NoMedia
    /\ i' = 0
    /\ probeOK' = <<>>
    /\ available_formats' = <<>>
    /\ UNCHANGED <<args, exit, choice, confirm, dirCreated, invoked, calls, raised,
                   format_selector, opts_format, smart_formats, manual_formats, prompts>>

\* select_quality: the prompt is shown and answered once.
Prompt ==
    /\ pc = "prompt"
    /\ prompts < MaxPrompts
    /\ \/ \E typed \in TypedChoices :
              LET step == PromptStep(Strip(typed), all_options)
              IN  /\ choice' = Strip(typed)
                  /\ CASE step.kind = "return" ->
                              /\ out' = out \cup step.print
                              /\ format_selector' = step.value
                              /\ pc' = "selected"
                              /\ exit' = exit
                              /\ LocalsGone
                       [] step.kind = "again" ->
                              /\ out' = out \cup step.print
                              /\ prompts' = prompts + 1
                              /\ UNCHANGED <<format_selector, pc, exit, smart_formats, info,
                                             i, probeOK, available_formats, manual_formats,
                                             unique_formats, all_options, lines>>
                       [] OTHER ->
                              /\ Caught({})
                              /\ format_selector' = format_selector
                              /\ LocalsGone
       \/ \* KeyboardInterrupt
          /\ out' = out \cup {"bye"}
          /\ format_selector' = None
          /\ pc' = "selected"
          /\ LocalsGone
          /\ choice' = NoText
          /\ exit' = exit
       \/ \* EOFError
          /\ Caught({})
          /\ LocalsGone
          /\ choice' = NoText
          /\ format_selector' = format_selector
    /\ UNCHANGED <<args, confirm, dirCreated, invoked, calls, raised, opts_format>>

\* download_video, download_playlist: cancelled, or the options are set.
UseSelection ==
    /\ pc = "selected"
    /\ IF SelectionCancelled(format_selector)
       THEN /\ Returned({"cancelled"})
            /\ opts_format' = opts_format
       ELSE /\ opts_format' = format_selector
            /\ exit' = exit
            /\ IF Op = "download_playlist"
               THEN /\ pc' = "playlist_info"
                    /\ out' = out
               ELSE /\ pc' = "download"
                    /\ out' = out \cup {"start"}
    /\ UNCHANGED <<args, choice, confirm, dirCreated, invoked, calls, raised,
                   format_selector, locals>>

\* download_playlist: the playlist's metadata.
QueryPlaylist ==
    /\ pc = "playlist_info"
    /\ calls' = Append(calls, Call("extract_info", None))
    /\ \/ \E has_entries \in BOOLEAN :
              /\ pc' = IF has_entries THEN "confirm" ELSE "download"
              /\ out' = out \cup (IF has_entries THEN {"playlist_title"} ELSE {"start"})
              /\ UNCHANGED <<raised, exit>>
       \/ /\ raised' = raised \cup {"playlist"}
          /\ Caught({})
    /\ UNCHANGED <<args, choice, confirm, dirCreated, invoked, format_selector,
                   opts_format, locals>>

\* download_playlist: the confirmation.
Confirm ==
    /\ pc = "confirm"
    /\ \/ \E typed \in ConfirmAnswers :
              /\ confirm' = typed
              /\ IF Confirms(typed)
                 THEN /\ pc' = "download"
                      /\ out' = out \cup {"start"}
                      /\ exit' = exit
                 ELSE Returned({"cancelled"})
       \/ \* KeyboardInterrupt
          /\ Interrupted({})
          /\ confirm' = confirm
       \/ \* EOFError
          /\ Caught({})
          /\ confirm' = confirm
    /\ UNCHANGED <<args, choice, dirCreated, invoked, calls, raised,
                   format_selector, opts_format, locals>>

\* ydl.download([url]) and what follows it.
DownloadCall(format) ==
    /\ calls' = Append(calls, Call("download", format))
    /\ \/ /\ Returned({SuccessMessage(Op)})
          /\ raised' = raised
       \/ /\ raised' = raised \cup {"download"}
          /\ Caught({})
       \/ /\ Interrupted({})
          /\ raised' = raised

\* download_video, download_playlist: the download.
Download ==
    /\ pc = "download"
    /\ DownloadCall(opts_format)
    /\ UNCHANGED <<args, choice, confirm, dirCreated, invoked, format_selector,
                   opts_format, locals>>

\* download_audio_only
DownloadAudioOnly ==
    /\ pc = "audio"
    /\ opts_format' = "bestaudio/best"
    /\ DownloadCall(opts_format')
    /\ UNCHANGED <<args, choice, confirm, dirCreated, invoked, format_selector,
                   locals>>

Next ==
    \/ ReadUrl
    \/ ValidateUrl
    \/ Construct
    \/ Dispatch
    \/ EnterOperation
    \/ QueryInfo
    \/ Probe
    \/ QueryFormats
    \/ ShowMenu
    \/ Prompt
    \/ UseSelection
    \/ QueryPlaylist
    \/ Confirm
    \/ Download
    \/ DownloadAudioOnly

Spec == Init /\ [][Next]_vars

\* ==================================================================== claims
\* The host of a URL: what stands between "https://" and the next "/".
RECURSIVE UpToSlash(_)
UpToSlash(s) ==
    IF s = <<>> \/ Head(s) = "/" THEN <<>> ELSE <<Head(s)>> \o UpToSlash(Tail(s))

HostOf(url) ==
    IF Len(url) >= Len(Https) /\ SubSeq(url, 1, Len(Https)) = Https
    THEN UpToSlash(SubSeq(url, Len(Https) + 1, Len(url)))
    ELSE UpToSlash(url)

\* A URL of the video site.
IsVideoSiteUrl(url) == HostOf(url) \in {YoutubeCom, Www \o YoutubeCom, YoutuBe}

\* The URL has been validated: main is past its two checks.
Validated == pc \notin {"main", "validate"} /\ exit # "traceback"

\* C1: once main has validated a URL that is not a URL of the video site,
\* whatever else the URL contains, the run has exited with status 1, the
\* download directory has not been created and the library has not been
\* called.
C1_RejectsForeignUrls ==
    (Validated /\ ~IsVideoSiteUrl(args.url)) =>
        (exit = "exit1" /\ ~dirCreated /\ calls = <<>>)

\* The answer just read at the quality prompt parses as a number printed in
\* the menu.
ValidChoice(text, options) ==
    PyInt(text).ok /\ 1 <= PyInt(text).val /\ PyInt(text).val <= Len(options)

\* A step of the prompt loop that read an answer.
AnswerRead == pc = "prompt" /\ choice' # NoText

\* select_quality returns a selector in this step.
SelectorReturned == pc' = "selected" /\ format_selector' # None

\* The prompt is shown again: nothing is returned, nothing is raised.
AskedAgain ==
    /\ pc' = "prompt"
    /\ prompts' = prompts + 1
    /\ exit' = "running"
    /\ all_options' = all_options
    /\ format_selector' = format_selector

\* What C2 says of one answer, `quits` being the answers that leave the loop.
PromptContract(quits) ==
    AnswerRead =>
        /\ SelectorReturned => ValidChoice(choice', all_options)
        /\ ValidChoice(choice', all_options) =>
               /\ SelectorReturned
               /\ format_selector' = all_options[PyInt(choice').val]
        /\ (~ValidChoice(choice', all_options) /\ choice' \notin quits) => AskedAgain

\* C2 as written: a selector is returned only for an answer that parses as an
\* integer n with 1 <= n <= len(all_options), and it is all_options[n-1];
\* for every other answer except 'q' the prompt is shown again.
C2_AsWritten == [][PromptContract({<<"q">>})]_vars

\* C2, amended: the same, the answers that are not asked again being 'q' and
\* 'Q'.
C2_PromptLoop == [][PromptContract({<<"q">>, <<"Q">>})]_vars

\* An out-of-range answer was rejected, then a number of the menu was taken.
C2_Witness ==
    /\ pc = "selected"
    /\ "invalid_option" \in out
    /\ "selected" \in out
    /\ format_selector # None

\* The selector select_quality holds for the line labelled `label`.
RECURSIVE SelectorAt(_, _)
SelectorAt(printed, label) ==
    IF printed = <<>> THEN None
    ELSE IF Head(printed).label = label THEN Head(printed).selector
         ELSE SelectorAt(Tail(printed), label)

\* The number printed for each entry is its position in all_options plus
\* one, and the entry printed there is the one all_options holds there.
MenuNumbered ==
    /\ Len(lines) = Len(all_options)
    /\ \A k \in DOMAIN lines :
          /\ PyInt(lines[k].label).ok
          /\ PyInt(lines[k].label).val = k   \* sequences count from 1
          /\ lines[k].selector = all_options[k]

\* Typing the number printed next to an entry returns that entry's selector.
TypedNumberSelects ==
    (pc = "prompt" /\ \E k \in DOMAIN lines : choice' = Strip(lines[k].label))
        => (pc' = "selected" /\ format_selector' = SelectorAt(lines, Fmt2d(PyInt(choice').val)))

\* From the selection to the download the selector is not altered, and it is
\* the 'format' the library's download call is given.
SelectorKept ==
    /\ pc \in {"selected", "playlist_info", "confirm", "download"}
          => format_selector' = format_selector
    /\ (pc = "download" /\ Len(calls') > Len(calls))
          => calls'[Len(calls')] = Call("download", format_selector)

\* C3: the numbers printed in the menu are the positions in all_options plus
\* one across all sections, typing a printed number selects the entry printed
\* next to it, and that entry's selector is the 'format' of the download call.
C3_MenuSelection ==
    /\ [](pc = "prompt" => MenuNumbered)
    /\ [][TypedNumberSelects /\ SelectorKept]_vars

\* A video-only entry, printed after the detected and the combined entries,
\* was chosen by its number and downloaded with its selector.
C3_Witness ==
    /\ pc = "done"
    /\ choice = <<"5">>
    /\ format_selector = "136+bestaudio"
    /\ \E k \in DOMAIN calls : calls[k] = Call("download", "136+bestaudio")

ErrorMessages == {"error_video", "error_playlist", "error_audio"}
SuccessMessages == {"success_video", "success_playlist", "success_audio"}

\* The library's download call has been made.
Downloaded == \E k \in DOMAIN calls : calls[k].fn = "download"

\* C4 as written: when the library has raised during a metadata extraction or
\* a download of an operation, the run ends with an error message printed,
\* the operation returned, no traceback and no success message.
C4_AsWritten ==
    (pc = "done" /\ raised \cap {"info", "formats", "playlist", "download"} # {}) =>
        /\ out \cap (ErrorMessages \cup {"detect_error"}) # {}
        /\ exit = "normal"
        /\ out \cap SuccessMessages = {}

\* C4, amended: the operation's own handler covers the download call and
\* download_playlist's metadata query; an exception of the first metadata
\* query of select_quality is printed and the fixed selector is used
\* instead, so the download goes on; no exception leaves main once an
\* operation was called.
C4_LibraryExceptions ==
    /\ (pc = "done" /\ raised \cap {"playlist", "download"} # {}) =>
          /\ ErrorMessage(Op) \in out
          /\ exit = "normal"
          /\ out \cap SuccessMessages = {}
    /\ "info" \in raised =>
          /\ "detect_error" \in out
          /\ pc \in {"selected", "playlist_info", "confirm", "download"}
                => format_selector = "bestvideo+bestaudio/best"
    /\ invoked # <<>> => exit \in {"running", "normal"}

\* The download call of download_playlist raised and was reported.
C4_Witness ==
    /\ pc = "done"
    /\ "download" \in raised
    /\ "error_playlist" \in out
    /\ exit = "normal"

\* The selectors the library was asked to probe, in the order asked.
ProbedSelectors ==
    LET IsProbeCall(c) == c.fn = "extract_info" /\ c.format # None
        probeCalls == SelectSeq(calls, IsProbeCall)
    IN  [k \in DOMAIN probeCalls |-> probeCalls[k].format]

\* The height of the video the answer resolves to (0: none known).
VideoHeight(answer) ==
    IF answer.has_requested
    THEN IF \E k \in DOMAIN answer.requested_formats :
                answer.requested_formats[k].vcodec # "none"
         THEN (CHOOSE s \in {answer.requested_formats[k] : k \in DOMAIN answer.requested_formats} :
                  s.vcodec # "none").height
         ELSE 0
    ELSE answer.height

\* The answer holds a video: a video stream among those requested, or a
\* single format with a height.
HasVideo(answer) ==
    IF answer.has_requested
    THEN \E k \in DOMAIN answer.requested_formats :
             answer.requested_formats[k].vcodec # "none"
    ELSE answer.height > 0

KnownResolution(answer) == VideoHeight(answer) > 0

\* The <<selector, height>> pairs of the first n probes that returned and
\* whose answer satisfies Yields, in probe order.
RECURSIVE ExpectedPairs(_, _)
ExpectedPairs(n, yields) ==
    IF n = 0 THEN <<>>
    ELSE ExpectedPairs(n - 1, yields) \o
         (IF probeOK[n] /\ yields[n]
          THEN <<<<test_formats[n], VideoHeight(info.probes[n])>>>>
          ELSE <<>>)

ActualPairs ==
    [k \in DOMAIN available_formats |->
        <<available_formats[k].selector, available_formats[k].height>>]

\* While and after the probes run: the probes made are the fixed selectors
\* in their order, whatever failed, and available_formats holds one entry
\* for each probe that returned an answer that `yields`.
ProbingContract(yields) ==
    pc \in {"probe", "manual"} /\ smart_formats # None =>
        /\ ProbedSelectors = SubSeq(test_formats, 1, Len(probeOK))
        /\ ActualPairs = ExpectedPairs(Len(probeOK), yields)
        /\ (pc = "manual" => Len(probeOK) = Len(test_formats) /\ Len(test_formats) = 9)

\* C5 as written: one entry for each probe that succeeded with a known video
\* resolution.
C5_AsWritten ==
    ProbingContract([n \in 1..Len(info.probes) |-> KnownResolution(info.probes[n])])

\* C5, amended: one entry for each probe that succeeded with separately
\* requested streams one of which is a video stream, whether or not its
\* height is known, or with a single format of known height.
C5_SkipAndContinue ==
    ProbingContract([n \in 1..Len(info.probes) |-> HasVideo(info.probes[n])])

\* All nine probes were made, an early one raised, later ones gave entries,
\* one of them of unknown height.
C5_Witness ==
    /\ pc = "manual"
    /\ smart_formats = "ok"
    /\ \E k \in 1..3 : ~probeOK[k]
    /\ \E k \in DOMAIN available_formats : available_formats[k].height = 0
    /\ \E k \in DOMAIN available_formats : available_formats[k].height > 0

\* What C6 says of the detected qualities `unique` built from the probe
\* results `available`.
DetectedContract(available, unique) ==
    /\ \A k \in DOMAIN unique : unique[k].height > 0
    /\ \A k, l \in DOMAIN unique : k < l => unique[k].height > unique[l].height
    /\ \A k \in DOMAIN unique :
          \E j \in DOMAIN available :
             /\ available[j] = unique[k]
             /\ \A e \in 1..(j - 1) : available[e].height # unique[k].height
    /\ \A j \in DOMAIN available :
          available[j].height > 0 =>
             \E k \in DOMAIN unique : unique[k].height = available[j].height

\* C6: the detected-qualities section of the menu holds only probe results
\* of height > 0, one per distinct height, the first probed of that height,
\* in strictly descending order of height.
C6_DetectedSection ==
    [][pc = "menu" =>
          /\ DetectedContract(available_formats, unique_formats')
          /\ Len(lines') >= Len(unique_formats')
          /\ \A k \in DOMAIN unique_formats' :
                lines'[k].selector = unique_formats'[k].selector]_vars

\* The menu of a video probed at 1080, 720 and 360 several times over, with
\* one probe failed: three detected qualities, the 1080 one from the first
\* selector that gave it.
C6_Witness ==
    /\ pc = "prompt"
    /\ "probe" \in raised
    /\ [k \in DOMAIN unique_formats |-> unique_formats[k].height] = <<1080, 720, 360>>
    /\ unique_formats[1].selector = "bestvideo+bestaudio/best"
    /\ lines[1].selector = "bestvideo+bestaudio/best"

\* main is past the call of an operation.
Dispatched == pc \notin {"main", "validate", "construct", "dispatch"} /\ dirCreated

\* The operation C7 names for a command line.
OperationFor(a) ==
    CASE a.audio -> "download_audio_only"
      [] ~a.audio /\ (a.playlist \/ Contains(a.url, PlaylistWord)) -> "download_playlist"
      [] OTHER -> "download_video"

\* C7: for every accepted URL and every combination of the flags and the
\* format string main calls exactly one operation: download_audio_only with
\* the audio flag, else download_playlist with the playlist flag or
\* 'playlist' in the URL, else download_video.
C7_OneOperation ==
    /\ Len(invoked) <= 1
    /\ Dispatched => invoked = <<OperationFor(args)>>
    /\ (pc = "done" /\ exit = "normal") => Len(invoked) = 1
    /\ invoked # <<>> => UrlAccepted(args.url)

\* The audio flag wins over the playlist flag and a playlist URL.
C7_Witness ==
    /\ pc = "done"
    /\ args.audio /\ args.playlist /\ args.url = UrlPlaylist
    /\ invoked = <<"download_audio_only">>
    /\ calls = <<Call("download", "bestaudio/best")>>

\* C8: with a format string on the command line and no audio flag there is
\* no probing, no menu and no prompt, and the 'format' of the download call
\* is that string.
C8_ExplicitFormat ==
    (args.quality # None /\ ~args.audio) =>
        /\ pc \notin {"tfa", "probe", "manual", "menu", "prompt"}
        /\ "menu" \notin out
        /\ lines = <<>> /\ all_options = <<>>
        /\ choice = NoText /\ prompts = 0
        /\ \A k \in DOMAIN calls :
              /\ calls[k].fn = "extract_info" =>
                    (calls[k].format = None /\ invoked = <<"download_playlist">> /\ k = 1)
              /\ calls[k].fn = "download" => calls[k].format = args.quality

\* The empty format string is passed on as it is.
C8_Witness ==
    /\ pc = "done"
    /\ args.quality = ""
    /\ invoked = <<"download_playlist">>
    /\ calls = <<Call("extract_info", None), Call("download", "")>>

\* The quality prompt was answered 'q' in either case, or interrupted.
QuitAnswered == choice' \in {<<"q">>, <<"Q">>} \/ ("bye" \in out' /\ "bye" \notin out)

\* C9: 'q' in any case, or an interrupt, at the quality prompt, after any
\* number of invalid answers, makes select_quality return None; the
\* operation then prints the cancellation and returns without a download
\* call.
C9_QuitCancels ==
    /\ [][(pc = "prompt" /\ QuitAnswered) =>
             (pc' = "selected" /\ format_selector' = None /\ exit' = "running")]_vars
    /\ [][(pc = "selected" /\ format_selector = None) =>
             (pc' = "done" /\ exit' = "normal" /\ "cancelled" \in out' /\ calls' = calls)]_vars
    /\ []((choice \in {<<"q">>, <<"Q">>} \/ "bye" \in out) => ~Downloaded)

\* 'Q' after an invalid answer: cancelled, nothing downloaded.
C9_Witness ==
    /\ pc = "done"
    /\ choice = <<"Q">>
    /\ "invalid_number" \in out
    /\ "cancelled" \in out
    /\ ~Downloaded

\* The answers C10 names, in any case.
Affirmative(answer) ==
    \/ Len(answer) = 1 /\ answer[1] \in {"y", "Y", "s", "S"}
    \/ Len(answer) = 2 /\ answer[1] \in {"s", "S"} /\ answer[2] \in {"i", "I"}
    \/ Len(answer) = 3 /\ answer[1] \in {"y", "Y"} /\ answer[2] \in {"e", "E"}
                       /\ answer[3] \in {"s", "S"}

\* C10: in download_playlist, when the metadata has entries, the download
\* call is made only after the confirmation was answered 'y', 'yes', 's' or
\* 'si' in any case; any other answer prints the cancellation and returns
\* without a download call.
C10_PlaylistConfirmation ==
    /\ ("playlist_title" \in out /\ (pc = "download" \/ Downloaded)) => Affirmative(confirm)
    /\ (confirm # NoText /\ ~Affirmative(confirm)) =>
          (pc = "done" /\ exit = "normal" /\ "cancelled" \in out /\ ~Downloaded)

\* A playlist downloaded after the answer 'Si'.
C10_Witness ==
    /\ pc = "done"
    /\ "playlist_title" \in out
    /\ confirm = <<"S", "i">>
    /\ Downloaded
    /\ "success_playlist" \in out

\* The three categories as C11 names them.
CombinedKind(f) == f.vcodec # "none" /\ f.acodec # "none" /\ f.height > 0
VideoOnlyKind(f) == f.vcodec # "none" /\ f.acodec = "none" /\ f.height > 0
AudioOnlyKind(f) == ~CombinedKind(f) /\ ~VideoOnlyKind(f) /\ f.acodec # "none"

\* How often f occurs in list.
Count(list, f) == Cardinality({k \in DOMAIN list : list[k] = f})

\* `result` holds the formats of `formats` that are of the kind `member`,
\* each as often as it occurs there, and nothing else.
HoldsExactly(result, formats, member) ==
    /\ \A k \in DOMAIN formats :
          Count(result, formats[k]) = (IF member[k] THEN Count(formats, formats[k]) ELSE 0)
    /\ \A k \in DOMAIN result : Count(formats, result[k]) > 0

\* The bitrate an audio format is sorted by, a missing one counting as 0.
Bitrate(f) == IF f.abr = NoAbr THEN 0 ELSE f.abr

\* get_manual_formats has returned what the library's format list gave.
FormatsListed == pc = "menu" /\ "formats" \notin raised

\* C11: every format of the library's list is in exactly one of combined,
\* video and audio by its codecs and height, only formats of no kind are
\* dropped, combined and video are sorted by height descending and audio by
\* bitrate descending, for every format list, audio formats without a
\* bitrate included.
C11_Classification ==
    FormatsListed =>
        LET formats == info.formats
            kinds == [k \in DOMAIN formats |->
                        <<CombinedKind(formats[k]), VideoOnlyKind(formats[k]),
                          AudioOnlyKind(formats[k])>>]
        IN  /\ HoldsExactly(manual_formats.combined, formats,
                            [k \in DOMAIN formats |-> kinds[k][1]])
            /\ HoldsExactly(manual_formats.video, formats,
                            [k \in DOMAIN formats |-> kinds[k][2]])
            /\ HoldsExactly(manual_formats.audio, formats,
                            [k \in DOMAIN formats |-> kinds[k][3]])
            /\ \A k \in 1..(Len(manual_formats.combined) - 1) :
                  manual_formats.combined[k].height >= manual_formats.combined[k + 1].height
            /\ \A k \in 1..(Len(manual_formats.video) - 1) :
                  manual_formats.video[k].height >= manual_formats.video[k + 1].height
            /\ \A k \in 1..(Len(manual_formats.audio) - 1) :
                  Bitrate(manual_formats.audio[k]) >= Bitrate(manual_formats.audio[k + 1])

====
